---- MODULE Spec2Model ----
(***************************************************************************)
(* Model of the in-memory file system simulator: the Storage singleton     *)
(* (entity registries `folders` and `files`, the tree index `tree`), the   *)
(* FileSystem cursor (`path`), and the command loop of main.cpp that       *)
(* drives them through FileSystemService.                                  *)
(*                                                                         *)
(* A std::string is modelled as a sequence of one-character strings, so    *)
(* that id minting ("F" + to_string(n)), first-character dispatch, the     *)
(* file-name split and the lexicographic iteration order of std::map are   *)
(* all computed as the code computes them.                                 *)
(***************************************************************************)
EXTENDS Integers, Sequences, FiniteSets, TLC

VARIABLES folders, files, tree, path, status, out, history, created, js

vars == <<folders, files, tree, path, status, out, history, created, js>>

----------------------------------------------------------------------------
(* Bounds of the model *)

\* mkdir is issued only while the folders map holds at most this many keys
MaxFolderKeys == 4
\* touch is issued only while the files map holds at most this many keys
MaxFileKeys == 1

\* names typed at the prompt: for mkdir, rmdir and cd, and for touch, write
\* and rm (the same name, so that a file and a folder can share it)
FolderNames == { <<"a", ".", "t">> }
FileNames == { <<"a", ".", "t">> }

\* contents typed for write (getline keeps the blank after the file name)
Contents == { <<" ", "h">> }

----------------------------------------------------------------------------
(* Strings *)

Digit == <<"0", "1", "2", "3", "4", "5", "6", "7", "8", "9">>

to_string(n) ==
    IF n < 10 THEN << Digit[n + 1] >>
    ELSE << Digit[(n \div 10) + 1], Digit[(n % 10) + 1] >>

\* the characters that occur in the model, in ASCII order
Alphabet ==
    << ".", "/", "0", "1", "2", "3", "4", "5", "6", "7", "8", "9",
       "B", "F", "X", "a", "b", "c", "d", "e", "f", "h", "l", "o", "r", "s", "t" >>

Ord(c) == CHOOSE i \in 1..Len(Alphabet) : Alphabet[i] = c

\* std::string operator< (lexicographic), the key order of std::map<string,...>
RECURSIVE StrLess(_, _)
StrLess(a, b) ==
    IF b = <<>> THEN FALSE
    ELSE IF a = <<>> THEN TRUE
    ELSE IF Head(a) = Head(b) THEN StrLess(Tail(a), Tail(b))
    ELSE Ord(Head(a)) < Ord(Head(b))

\* the keys of a std::map in iteration order
RECURSIVE MapOrder(_)
MapOrder(S) ==
    IF S = {} THEN <<>>
    ELSE LET k == CHOOSE x \in S : \A y \in S \ {x} : StrLess(x, y)
         IN  <<k>> \o MapOrder(S \ {k})

\* s[0] of a std::string; the empty string yields the terminator
FirstChar(s) == IF s = <<>> THEN "NUL" ELSE s[1]

F0 == <<"F", "0">>
F1 == <<"F", "1">>
FX == <<"F", "X">>
EmptyStr == <<>>
DotDot == <<".", ".">>
BaseFolder == <<"B", "a", "s", "e", "F", "o", "l", "d", "e", "r">>

----------------------------------------------------------------------------
(* Records and maps *)

\* a null pointer stored in a map
Null == [null |-> TRUE]

\* a std::map without keys
EmptyMap == [x \in {} |-> Null]

\* map[k] = v
Put(m, k, v) == [x \in (DOMAIN m) \cup {k} |-> IF x = k THEN v ELSE m[x]]

\* map.erase(k)
Erase(m, k) == [x \in (DOMAIN m) \ {k} |-> m[x]]

\* the default-inserting read map[k] of std::map: the map after the read
Subscript(m, k, dflt) == IF k \in DOMAIN m THEN m ELSE Put(m, k, dflt)

Folder(id, name, folderId) == [id |-> id, name |-> name, folderId |-> folderId]

\* index of the first '.', zero-based; the set of values `ind` can hold after
\* the loop of the File constructor (uninitialised when there is no '.')
FirstDot(fileName) ==
    IF \E i \in 1..Len(fileName) : fileName[i] = "."
    THEN { (CHOOSE i \in 1..Len(fileName) :
               fileName[i] = "." /\ \A j \in 1..(i - 1) : fileName[j] # ".") - 1 }
    ELSE (-2)..(Len(fileName) + 1)

\* std::string::substr(pos, count) with both arguments converted to size_t:
\* a negative value is a huge one; pos > size() throws std::out_of_range
SubstrThrows(s, pos) == pos < 0 \/ pos > Len(s)
Substr(s, pos, count) ==
    LET n == IF count < 0 \/ pos + count > Len(s) THEN Len(s) - pos ELSE count
    IN  SubSeq(s, pos + 1, pos + n)

\* File::File, given the value of `ind` after the loop
FileThrows(fileName, ind) == SubstrThrows(fileName, ind + 1)
File(id, fileName, folderId, ind) ==
    LET n  == Substr(fileName, 0, ind)
        ex == Substr(fileName, ind + 1, Len(n) - ind - 1)
    IN  [id |-> id, name |-> n, extension |-> ex, content |-> <<>>,
         folderId |-> folderId]

getFileName(f) == f.name \o <<".">> \o f.extension

----------------------------------------------------------------------------
(* The state of the process as one record, for the operators below *)

\* what a command other than grep leaves of a search: nothing
NoGrep == [options |-> <<>>, results |-> <<>>, display |-> [kind |-> "nothing"]]

State ==
    [folders |-> folders, files |-> files, tree |-> tree, path |-> path,
     status |-> status, res |-> "ok", grep |-> NoGrep, listing |-> <<>>]

\* dereferencing a null pointer ends the process
Crash(st) == [st EXCEPT !.status = "crashed", !.res = "crash"]

Ok(st)   == [st EXCEPT !.res = "ok"]
Fail(st) == [st EXCEPT !.res = "fail"]

\* tree[id]: the read inserts an empty child map when the key is absent
SubscriptTree(st, id) == [st EXCEPT !.tree = Subscript(@, id, {})]

\* FileSystem::checkEmpty, getCurrentFolder, addFolderId, removeCurrentFolder
checkEmpty(st) == st.path = <<>>
getCurrentFolder(st) ==
    IF st.path # <<>> THEN st.path[Len(st.path)] ELSE EmptyStr
addFolderId(st, id) == [st EXCEPT !.path = Append(@, id)]

\* a removeCurrentFolder that goes back to the bottom of the stack
removeCurrentFolderToBottom(st) ==
    IF st.path # <<>> THEN [st EXCEPT !.path = SubSeq(@, 1, 1)] ELSE st

removeCurrentFolder(st) ==
    IF st.path # <<>> THEN [st EXCEPT !.path = SubSeq(@, 1, Len(@) - 1)] ELSE st

\* the loops `for (auto i : tree[id]) if (i.first[0] == kind &&
\* records[i.first]->name() == name)`: the first key that matches, or the
\* null dereference met before it
RECURSIVE FindByName(_, _, _, _)
FindByName(keys, kind, name, recs) ==
    IF keys = <<>> THEN [res |-> "none"]
    ELSE LET k == Head(keys)
         IN  IF FirstChar(k) = kind
             THEN IF k \notin DOMAIN recs \/ recs[k] = Null
                  THEN [res |-> "crash"]
                  ELSE IF (IF kind = "f" THEN getFileName(recs[k])
                                         ELSE recs[k].name) = name
                       THEN [res |-> "found", key |-> k]
                       ELSE FindByName(Tail(keys), kind, name, recs)
             ELSE FindByName(Tail(keys), kind, name, recs)

\* Storage::getPath: the walk over parent links; every read folders[...]
\* inserts a null entry for a key that is absent
RECURSIVE getPathLoop(_, _, _, _)
getPathLoop(fs, f, p, fuel) ==
    IF f # Null /\ f.folderId # F0
    THEN IF fuel = 0
         THEN [folders |-> fs, path |-> p, done |-> FALSE]
         ELSE LET fs2 == Subscript(fs, f.folderId, Null)
              IN  getPathLoop(fs2, fs2[f.folderId],
                              f.name \o <<"/">> \o p, fuel - 1)
    ELSE [folders |-> fs, path |-> p, done |-> TRUE]

getPath(st, id) ==
    LET fs == Subscript(st.folders, id, Null)
    IN  getPathLoop(fs, fs[id], <<>>, Cardinality(DOMAIN fs) + 1)

\* FileSystemService::currentPath: the state after the call
currentPath(st) ==
    LET r == getPath(st, getCurrentFolder(st))
    IN  IF r.done THEN [st EXCEPT !.folders = r.folders]
        ELSE [st EXCEPT !.folders = r.folders, !.status = "hung"]

\* the string currentPath returns
currentPathString(st) == getPath(st, getCurrentFolder(st)).path

getNewFileId(st) == <<"f">> \o to_string(Cardinality(DOMAIN st.files))
\* a getNewFolderId that counts two keys fewer
getNewFolderIdTwoBack(st) ==
    <<"F">> \o to_string(Cardinality(DOMAIN st.folders) - 2)

getNewFolderId(st) == <<"F">> \o to_string(Cardinality(DOMAIN st.folders))

\* Storage::addFolder
addFolder(st0, name, parentFolderId) ==
    LET st == SubscriptTree(st0, parentFolderId)
        r  == FindByName(MapOrder(st.tree[parentFolderId]), "F", name, st.folders)
    IN  CASE r.res = "crash" -> Crash(st)
          [] r.res = "found" -> Fail(st)
          [] OTHER ->
               LET newFolderId == getNewFolderId(st)
               IN  Ok([st EXCEPT
                        !.folders = Put(@, newFolderId,
                                        Folder(newFolderId, name, parentFolderId)),
                        !.tree[parentFolderId] = @ \cup {newFolderId}])

\* Storage::addFile, given the value `ind` takes in the File constructor
addFile(st0, name, folderId, ind) ==
    LET st == SubscriptTree(st0, folderId)
        r  == FindByName(MapOrder(st.tree[folderId]), "f", name, st.files)
    IN  CASE r.res = "crash" -> Crash(st)
          [] r.res = "found" -> Fail(st)
          [] OTHER ->
               LET newFileId == getNewFileId(st)
               IN  IF FileThrows(name, ind) THEN Crash(st)
                   ELSE Ok([st EXCEPT
                             !.files = Put(@, newFileId,
                                           File(newFileId, name, folderId, ind)),
                             !.tree[folderId] = @ \cup {newFileId}])

\* Storage::validateFile and Storage::validateFolder: the scan of the current
\* folder's children, with the state after the read of tree[currentFolderId]
validate(st0, kind, name) ==
    LET st == SubscriptTree(st0, getCurrentFolder(st0))
    IN  [st |-> st,
         r  |-> FindByName(MapOrder(st.tree[getCurrentFolder(st)]), kind, name,
                           IF kind = "f" THEN st.files ELSE st.folders)]

\* Storage::getIntoFolder
getIntoFolder(st0, name) ==
    IF name # DotDot
    THEN LET v == validate(st0, "F", name)
         IN  CASE v.r.res = "crash" -> Crash(v.st)
               [] v.r.res = "found" -> Ok(addFolderId(v.st, v.r.key))
               [] OTHER -> Fail(v.st)
    ELSE IF ~checkEmpty(st0) THEN Ok(removeCurrentFolder(st0))
    ELSE Fail(st0)

\* Storage::removeFile
removeFile(st0, fileName) ==
    LET v == validate(st0, "f", fileName)
    IN  CASE v.r.res = "crash" -> Crash(v.st)
          [] v.r.res = "found" ->
               LET currentFolderId == getCurrentFolder(v.st)
                   fileId == v.st.files[v.r.key].id
                   st1 == [v.st EXCEPT !.files = Erase(@, fileId),
                                       !.tree[currentFolderId] = @ \ {fileId}]
               IN  Ok(IF st1.tree[currentFolderId] = {}
                      THEN [st1 EXCEPT !.tree = Erase(@, currentFolderId)]
                      ELSE st1)
          [] OTHER -> Fail(v.st)

\* Storage::removeDFS: removeDFSLoop is the for loop over tree[node] followed
\* by the deletion of the folder itself
RECURSIVE removeDFS(_, _)
RECURSIVE removeDFSLoop(_, _, _)
removeDFSLoop(st, keys, node) ==
    IF st.status # "running" THEN st
    ELSE IF keys = <<>>
    THEN IF node \notin DOMAIN st.folders \/ st.folders[node] = Null
         THEN Crash(st)
         ELSE [st EXCEPT !.folders[node] = Null, !.tree = Erase(@, node)]
    ELSE LET k == Head(keys)
         IN  IF FirstChar(k) = "F"
             THEN LET st1 == removeDFS(st, k)
                  IN  IF st1.status = "running" /\ node \notin DOMAIN st1.tree
                      THEN Crash(st1)   \* the map being iterated was erased
                      ELSE removeDFSLoop(st1, Tail(keys), node)
             ELSE IF k \notin DOMAIN st.files \/ st.files[k] = Null
                  THEN Crash(st)
                  ELSE removeDFSLoop([st EXCEPT !.files[k] = Null],
                                     Tail(keys), node)

removeDFS(st0, node) ==
    LET st == SubscriptTree(st0, node)
    IN  removeDFSLoop(st, MapOrder(st.tree[node]), node)

\* Storage::removeFolder
removeFolder(st0, folderName) ==
    LET v == validate(st0, "F", folderName)
    IN  CASE v.r.res = "crash" -> Crash(v.st)
          [] v.r.res = "found" ->
               LET folderId == v.st.folders[v.r.key].id
                   parFolderId == v.st.folders[v.r.key].folderId
                   st1 == SubscriptTree(v.st, parFolderId)
                   st2 == [st1 EXCEPT !.tree[parFolderId] = @ \ {folderId}]
                   st3 == removeDFS(st2, folderId)
               IN  IF st3.status = "running" THEN Ok(st3) ELSE st3
          [] OTHER -> Fail(v.st)

\* Storage::addContent: the loop goes on after the file it has written
RECURSIVE addContentLoop(_, _, _, _)
addContentLoop(st, keys, fileName, content) ==
    IF keys = <<>> THEN Ok(st)
    ELSE LET k == Head(keys)
         IN  IF FirstChar(k) = "f"
             THEN IF k \notin DOMAIN st.files \/ st.files[k] = Null
                  THEN Crash(st)
                  ELSE addContentLoop(
                         IF getFileName(st.files[k]) = fileName
                         THEN [st EXCEPT !.files[k].content = content]
                         ELSE st,
                         Tail(keys), fileName, content)
             ELSE addContentLoop(st, Tail(keys), fileName, content)

addContent(st0, fileName, content) ==
    LET v == validate(st0, "f", fileName)
    IN  CASE v.r.res = "crash" -> Crash(v.st)
          [] v.r.res = "found" ->
               addContentLoop(v.st, MapOrder(v.st.tree[getCurrentFolder(v.st)]),
                              fileName, content)
          [] OTHER -> Fail(v.st)

\* Storage::showItemsInFolder
RECURSIVE showItemsLoop(_, _)
showItemsLoop(st, keys) ==
    IF keys = <<>> THEN Ok(st)
    ELSE LET k == Head(keys)
             recs == IF FirstChar(k) = "f" THEN st.files ELSE st.folders
         IN  IF k \notin DOMAIN recs \/ recs[k] = Null THEN Crash(st)
             ELSE showItemsLoop(
                      [st EXCEPT !.listing =
                          Append(@, IF FirstChar(k) = "f"
                                    THEN getFileName(recs[k])
                                    ELSE recs[k].name)],
                      Tail(keys))

\* the same with tree.at(folderId) in the place of tree[folderId]
showItemsInFolderAt(st0, folderId) ==
    IF folderId \in DOMAIN st0.folders /\ st0.folders[folderId] # Null
    THEN IF folderId \in DOMAIN st0.tree
         THEN showItemsLoop(st0, MapOrder(st0.tree[folderId]))
         ELSE Crash(st0)
    ELSE Fail(st0)

showItemsInFolder(st0, folderId) ==
    IF folderId \in DOMAIN st0.folders /\ st0.folders[folderId] # Null
    THEN LET st == SubscriptTree(st0, folderId)
         IN  showItemsLoop(st, MapOrder(st.tree[folderId]))
    ELSE Fail(st0)

\* Storage::showDFS: the node's own line, then the loop over tree[node].
\* Each printed line is kept with the id of the node it was printed for.
Bar == <<" ", " ", "|">>
Dash == <<"-", " ">>

RECURSIVE showDFS(_, _, _)
RECURSIVE showDFSLoop(_, _, _)
showDFSLoop(st, keys, symbols) ==
    IF st.status # "running" \/ keys = <<>> THEN st
    ELSE showDFSLoop(showDFS(st, Head(keys), symbols), Tail(keys), symbols)

showDFS(st0, node, symbols) ==
    LET recs == IF FirstChar(node) = "F" THEN st0.folders ELSE st0.files
    IN  IF node \notin DOMAIN recs \/ recs[node] = Null THEN Crash(st0)
        ELSE LET name == IF FirstChar(node) = "F" THEN recs[node].name
                                                  ELSE getFileName(recs[node])
                 st == SubscriptTree(
                           [st0 EXCEPT !.listing =
                               Append(@, [id |-> node,
                                          line |-> symbols \o Dash \o name])],
                           node)
             IN  showDFSLoop(st, MapOrder(st.tree[node]), symbols \o Bar)

\* Storage::showFolderTree
showFolderTree(st) == 
    LET st1 == showDFS(st, getCurrentFolder(st), EmptyStr)
    IN  IF st1.status = "running" THEN Ok(st1) ELSE st1

----------------------------------------------------------------------------
(* GrepService *)

NL == "\n"

UpperCase ==
    << "A", "B", "C", "D", "E", "F", "G", "H", "I", "J", "K", "L", "M",
       "N", "O", "P", "Q", "R", "S", "T", "U", "V", "W", "X", "Y", "Z" >>
LowerCase ==
    << "a", "b", "c", "d", "e", "f", "g", "h", "i", "j", "k", "l", "m",
       "n", "o", "p", "q", "r", "s", "t", "u", "v", "w", "x", "y", "z" >>

\* ::tolower, and std::transform(..., ::tolower) over a string
tolower(c) ==
    IF \E i \in DOMAIN UpperCase : UpperCase[i] = c
    THEN LowerCase[CHOOSE i \in DOMAIN UpperCase : UpperCase[i] = c]
    ELSE c
transform_tolower(s) == [i \in 1..Len(s) |-> tolower(s[i])]

\* GrepOptions with its default member initialisers
DefaultGrepOptions ==
    [caseInsensitive |-> FALSE, recursive |-> FALSE, showLineNumbers |-> TRUE,
     showFilePath |-> TRUE, countOnly |-> FALSE, invertMatch |-> FALSE,
     targetFile |-> EmptyStr, targetFolder |-> EmptyStr]

\* std::getline on what is left of the stream: the characters up to the first
\* line break, which is consumed and not stored
getline(rest) ==
    IF \E i \in 1..Len(rest) : rest[i] = NL
    THEN LET i == CHOOSE k \in 1..Len(rest) :
                      rest[k] = NL /\ \A j \in 1..(k - 1) : rest[j] # NL
         IN  [line |-> SubSeq(rest, 1, i - 1), rest |-> SubSeq(rest, i + 1, Len(rest))]
    ELSE [line |-> rest, rest |-> <<>>]

\* GrepService::splitLines: getline fails once nothing is left to extract
RECURSIVE splitLinesLoop(_, _)
splitLinesLoop(rest, lines) ==
    IF rest = <<>> THEN lines
    ELSE LET g == getline(rest)
         IN  splitLinesLoop(g.rest, Append(lines, g.line))

\* a splitLines that opens one more line after a break at the very end
splitLinesOpenEnd(content) ==
    LET lines == splitLinesLoop(content, <<>>)
    IN  IF content # <<>> /\ content[Len(content)] = NL
        THEN Append(lines, <<>>)
        ELSE lines

splitLines(content) ==
    LET lines == splitLinesLoop(content, <<>>)
    IN  IF content # <<>> /\ content[Len(content)] # NL /\ lines = <<>>
        THEN <<content>>
        ELSE lines

\* ::toupper
toupper(c) ==
    IF \E i \in DOMAIN LowerCase : LowerCase[i] = c
    THEN UpperCase[CHOOSE i \in DOMAIN LowerCase : LowerCase[i] = c]
    ELSE c

\* the code of a character (ASCII), for the characters patterns are made of
CharCode(c) ==
    CASE \E i \in DOMAIN UpperCase : UpperCase[i] = c ->
             64 + (CHOOSE i \in DOMAIN UpperCase : UpperCase[i] = c)
      [] \E i \in DOMAIN LowerCase : LowerCase[i] = c ->
             96 + (CHOOSE i \in DOMAIN LowerCase : LowerCase[i] = c)
      [] c = NL  -> 10
      [] c = " " -> 32
      [] c = "(" -> 40
      [] c = "-" -> 45
      [] c = "." -> 46
      [] c = "[" -> 91
      [] c = "]" -> 93

\* std::regex (ECMAScript) over the patterns of the model, which are made of
\* ordinary characters, "." (any character but a line break), "(" and
\* bracket expressions of one range, "[x-y]". The atoms of a pattern:
IsRange(p) == Len(p) >= 5 /\ p[1] = "[" /\ p[3] = "-" /\ p[5] = "]"

RECURSIVE Atoms(_)
Atoms(p) ==
    IF p = <<>> THEN <<>>
    ELSE IF IsRange(p)
         THEN <<[kind |-> "range", lo |-> p[2], hi |-> p[4]]>>
                  \o Atoms(SubSeq(p, 6, Len(p)))
         ELSE <<[kind |-> "chr", c |-> p[1]]>> \o Atoms(Tail(p))

\* the constructor throws regex_error for a "(" that nothing closes
\* (error_paren), a "[" that opens no bracket expression (error_brack) and a
\* range whose first character comes after its last (error_range)
regex_error(pattern) ==
    \E i \in 1..Len(Atoms(pattern)) :
        LET a == Atoms(pattern)[i]
        IN  IF a.kind = "range" THEN CharCode(a.lo) > CharCode(a.hi)
            ELSE a.c \in {"(", "["}

\* with icase a range takes a character whose lower or upper case is in it
AtomMatches(a, c, icase) ==
    IF a.kind = "range"
    THEN IF icase
         THEN \/ /\ CharCode(a.lo) <= CharCode(tolower(c))
                 /\ CharCode(tolower(c)) <= CharCode(a.hi)
              \/ /\ CharCode(a.lo) <= CharCode(toupper(c))
                 /\ CharCode(toupper(c)) <= CharCode(a.hi)
         ELSE CharCode(a.lo) <= CharCode(c) /\ CharCode(c) <= CharCode(a.hi)
    ELSE IF a.c = "." THEN c # NL
    ELSE IF icase THEN tolower(a.c) = tolower(c) ELSE a.c = c

regex_search(line, pattern, icase) ==
    LET atoms == Atoms(pattern)
    IN  \E s \in 0..(Len(line) - Len(atoms)) :
            \A j \in 1..Len(atoms) : AtomMatches(atoms[j], line[s + j], icase)

\* std::string::find(sub) != npos
find(s, sub) ==
    \E k \in 0..(Len(s) - Len(sub)) : SubSeq(s, k + 1, k + Len(sub)) = sub

\* a matchesPattern that builds the regex without the icase flag
matchesPatternNoIcase(line, pattern, caseInsensitive, invertMatch) ==
    LET searchLine == IF caseInsensitive THEN transform_tolower(line) ELSE line
        searchPattern ==
            IF caseInsensitive THEN transform_tolower(pattern) ELSE pattern
        found == IF regex_error(searchPattern)
                 THEN find(searchLine, searchPattern)
                 ELSE regex_search(line, searchPattern, FALSE)
    IN  IF invertMatch THEN ~found ELSE found

\* a matchesPattern that does not look at invertMatch
matchesPatternNoInvert(line, pattern, caseInsensitive, invertMatch) ==
    LET searchLine == IF caseInsensitive THEN transform_tolower(line) ELSE line
        searchPattern ==
            IF caseInsensitive THEN transform_tolower(pattern) ELSE pattern
    IN  IF regex_error(searchPattern)
        THEN find(searchLine, searchPattern)
        ELSE regex_search(line, searchPattern, caseInsensitive)

\* GrepService::matchesPattern: the regex is built from the lowercased
\* pattern and searched in the line as it is stored
matchesPattern(line, pattern, caseInsensitive, invertMatch) ==
    LET searchLine == IF caseInsensitive THEN transform_tolower(line) ELSE line
        searchPattern ==
            IF caseInsensitive THEN transform_tolower(pattern) ELSE pattern
        found == IF regex_error(searchPattern)
                 THEN find(searchLine, searchPattern)
                 ELSE regex_search(line, searchPattern, caseInsensitive)
    IN  IF invertMatch THEN ~found ELSE found

\* GrepResult
GrepResult(fileName, filePath, lineNumber, matchedLine, fileId) ==
    [fileName |-> fileName, filePath |-> filePath, lineNumber |-> lineNumber,
     matchedLine |-> matchedLine, fileId |-> fileId]

\* the loop of GrepService::searchInFile over lines[i], i counted from 0;
\* st.grep.results is the vector the results are pushed to
RECURSIVE searchInFileLoop(_, _, _, _, _, _)
searchInFileLoop(st, fileId, lines, i, pattern, options) ==
    IF i >= Len(lines) \/ st.status # "running" THEN st
    ELSE IF matchesPattern(lines[i + 1], pattern, options.caseInsensitive,
                           options.invertMatch)
    THEN LET file == st.files[fileId]
             gp == getPath(st, file.folderId)
             result == GrepResult(getFileName(file),
                                  gp.path \o <<"/">> \o getFileName(file),
                                  i + 1, lines[i + 1], fileId)
             st1 == [st EXCEPT !.folders = gp.folders,
                               !.status = IF gp.done THEN @ ELSE "hung",
                               !.grep.results = Append(@, result)]
         IN  searchInFileLoop(st1, fileId, lines, i + 1, pattern, options)
    ELSE searchInFileLoop(st, fileId, lines, i + 1, pattern, options)

\* a searchInFile that numbers the lines from 0
searchInFileFromZero(st0, fileId, pattern, options) ==
    LET st == [st0 EXCEPT !.files = Subscript(@, fileId, Null)]
        file == st.files[fileId]
        before == Len(st.grep.results)
        st1 == searchInFileLoop(st, fileId, splitLines(file.content), 0,
                                pattern, options)
    IN  IF file = Null THEN st
        ELSE IF file.content = <<>> THEN st
        ELSE [st1 EXCEPT !.grep.results =
                [k \in 1..Len(@) |->
                    IF k > before THEN [@[k] EXCEPT !.lineNumber = @ - 1]
                    ELSE @[k]]]

\* a searchInFile without the test of the pointer Storage::getFile returns
searchInFileUnchecked(st0, fileId, pattern, options) ==
    LET st == [st0 EXCEPT !.files = Subscript(@, fileId, Null)]
        file == st.files[fileId]
    IN  IF file = Null THEN Crash(st)
        ELSE IF file.content = <<>> THEN st
        ELSE searchInFileLoop(st, fileId, splitLines(file.content), 0,
                              pattern, options)

\* GrepService::searchInFile; Storage::getFile reads files[fileId]
searchInFile(st0, fileId, pattern, options) ==
    LET st == [st0 EXCEPT !.files = Subscript(@, fileId, Null)]
        file == st.files[fileId]
    IN  IF file = Null THEN st
        ELSE IF file.content = <<>> THEN st
        ELSE searchInFileLoop(st, fileId, splitLines(file.content), 0,
                              pattern, options)

\* Storage::getFileIdsInFolder and Storage::getFolderIdsInFolder
IdsInFolder(st, folderId, kind) ==
    IF folderId \in DOMAIN st.tree
    THEN SelectSeq(MapOrder(st.tree[folderId]), LAMBDA k : FirstChar(k) = kind)
    ELSE <<>>
getFileIdsInFolder(st, folderId) == IdsInFolder(st, folderId, "f")
getFolderIdsInFolder(st, folderId) == IdsInFolder(st, folderId, "F")

RECURSIVE searchFilesLoop(_, _, _, _)
searchFilesLoop(st, fileIds, pattern, options) ==
    IF fileIds = <<>> THEN st
    ELSE searchFilesLoop(searchInFile(st, Head(fileIds), pattern, options),
                         Tail(fileIds), pattern, options)

\* GrepService::searchInFolder: the folder's own files, then its subfolders
RECURSIVE searchInFolder(_, _, _, _)
RECURSIVE searchFoldersLoop(_, _, _, _)
searchFoldersLoop(st, folderIds, pattern, options) ==
    IF folderIds = <<>> THEN st
    ELSE searchFoldersLoop(searchInFolder(st, Head(folderIds), pattern, options),
                           Tail(folderIds), pattern, options)

searchInFolder(st, folderId, pattern, options) ==
    LET st1 == searchFilesLoop(st, getFileIdsInFolder(st, folderId),
                               pattern, options)
    IN  IF options.recursive
        THEN searchFoldersLoop(st1, getFolderIdsInFolder(st1, folderId),
                               pattern, options)
        ELSE st1

\* GrepService::displayResults: what is printed
RECURSIVE displayLoop(_, _, _, _)
displayLoop(results, options, currentFile, printed) ==
    IF results = <<>> THEN printed
    ELSE LET result == Head(results)
             header == options.showFilePath /\ result.fileName # currentFile
             line == [line |-> result.matchedLine,
                      number |-> IF options.showLineNumbers
                                 THEN <<result.lineNumber>> ELSE <<>>]
         IN  displayLoop(Tail(results), options,
                         IF header THEN result.fileName ELSE currentFile,
                         printed
                           \o (IF header THEN <<[header |-> result.filePath]>>
                               ELSE <<>>)
                           \o <<line>>)

displayResults(results, options) ==
    IF results = <<>> THEN [kind |-> "none"]
    ELSE IF options.countOnly THEN [kind |-> "count", count |-> Len(results)]
    ELSE [kind |-> "lines",
          printed |-> displayLoop(results, options, EmptyStr, <<>>)]

\* Storage::getFileIdByName: the read files[i.first] inserts a null entry
\* for a key that is absent
RECURSIVE getFileIdByNameLoop(_, _, _)
getFileIdByNameLoop(st, keys, fileName) ==
    IF keys = <<>> THEN [st |-> st, id |-> EmptyStr]
    ELSE LET k == Head(keys)
             st1 == [st EXCEPT !.files = Subscript(@, k, Null)]
         IN  IF FirstChar(k) = "f"
             THEN IF st1.files[k] # Null /\ getFileName(st1.files[k]) = fileName
                  THEN [st |-> st1, id |-> k]
                  ELSE getFileIdByNameLoop(st1, Tail(keys), fileName)
             ELSE getFileIdByNameLoop(st, Tail(keys), fileName)

getFileIdByName(st, fileName, folderId) ==
    IF folderId \in DOMAIN st.tree
    THEN getFileIdByNameLoop(st, MapOrder(st.tree[folderId]), fileName)
    ELSE [st |-> st, id |-> EmptyStr]

Displayed(st, options) ==
    [st EXCEPT !.grep.display = displayResults(st.grep.results, options)]

\* GrepService::grepInFile
grepInFile(st0, pattern, fileName, options) ==
    LET r == getFileIdByName(st0, fileName, getCurrentFolder(st0))
    IN  IF r.id # EmptyStr
        THEN Ok(Displayed(searchInFile(r.st, r.id, pattern, options), options))
        ELSE Fail([r.st EXCEPT !.grep.display = [kind |-> "notfound"]])

\* GrepService::grep
grep(st0, pattern, options) ==
    LET st == [st0 EXCEPT !.grep.options = options]
    IN  IF options.targetFile # EmptyStr
        THEN grepInFile(st, pattern, options.targetFile, options)
        ELSE Ok(Displayed(searchInFolder(st, getCurrentFolder(st), pattern,
                                         options), options))

----------------------------------------------------------------------------
(* The command history of the facade *)

\* HistoryService::MAX_HISTORY_SIZE is 1000 in the source; the log of the
\* model is full after this many entries
MAX_HISTORY_SIZE == 3
\* a logged command is typed only while History::nextId is at most this
MaxHistoryId == 6

\* History::History: the entry takes nextId
History(h, operationType, target) ==
    [id |-> h.nextId, operationType |-> operationType, target |-> target]

\* the same without the erase of the front
addEntryKeepFront(h, operationType, target) ==
    [h EXCEPT !.historyEntries = Append(@, History(h, operationType, target)),
              !.nextId = @ + 1]

\* HistoryService::addEntry: push_back, then the front is erased when the
\* vector holds more than MAX_HISTORY_SIZE entries
addEntry(h, operationType, target) ==
    LET pushed == Append(h.historyEntries, History(h, operationType, target))
    IN  [h EXCEPT !.historyEntries = IF Len(pushed) > MAX_HISTORY_SIZE
                                     THEN Tail(pushed) ELSE pushed,
                  !.nextId = @ + 1]

\* HistoryService::clearHistory: History::nextId is left as it is
clearHistory(h) == [h EXCEPT !.historyEntries = <<>>]

\* the operation type the facade logs for a command; pwd is not logged
OperationType ==
    [touch |-> "CREATE_FILE", write |-> "WRITE_FILE", rm |-> "REMOVE_FILE",
     mkdir |-> "CREATE_FOLDER", rmdir |-> "REMOVE_FOLDER",
     tree |-> "SHOW_TREE", ls |-> "LIST_ITEMS", cd |-> "CHANGE_DIR",
     grep |-> "GREP"]

Clear == <<"c", "l", "e", "a", "r">>

\* a fresh HistoryService and History::nextId = 1; `on` tells whether the
\* specification observes the log, `mark` is the value nextId had at the
\* last history clear (0 before the first one)
NewHistory(on) ==
    [on |-> on, historyEntries |-> <<>>, nextId |-> 1, mark |-> 0]

\* the names created in the folder at the cursor and not removed since, in
\* the order of their creation; `on` tells whether the specification
\* observes the order
NewCreated(on) == [on |-> on, order |-> <<>>]

----------------------------------------------------------------------------
(* The JavaScript port: the Storage singleton and the services holding it *)

\* resetInstance is called only while this many Storage objects were built
MaxStorages == 3
\* new FileSystemService() is called only while this many services exist
MaxServices == 2
\* createFolder is called only while the folders Map holds at most this
\* many keys
MaxFolderKeysJs == 3

\* getCurrentFolder of an empty path stack returns null, no key of any Map
JsNull == EmptyStr

\* Storage constructor (JS)
JsStorage ==
    [folders |-> (F0 :> Null) @@ (F1 :> Folder(F1, BaseFolder, F0)),
     files |-> EmptyMap,
     tree |-> (F0 :> {F1}),
     path |-> <<F0, F1>>]

\* FileSystem.getCurrentFolder (JS)
jsGetCurrentFolder(s) ==
    IF s.path = <<>> THEN JsNull ELSE s.path[Len(s.path)]

\* the F children of a folder that carry the name
jsFoldersNamed(s, folderId, name) ==
    { k \in s.tree[folderId] : Head(k) = "F" /\ s.folders[k].name = name }

\* Storage.addFolder (JS): the storage after the call and what it returned
jsAddFolder(s, name, parentFolderId) ==
    IF parentFolderId \notin DOMAIN s.tree
    THEN [store |-> s, res |-> "undefined"]
    ELSE IF jsFoldersNamed(s, parentFolderId, name) # {}
    THEN [store |-> s, res |-> "undefined"]
    ELSE LET newFolderId == <<"F">> \o to_string(Cardinality(DOMAIN s.folders))
             treeFolder == s.tree[parentFolderId] \cup {newFolderId}
         IN  [store |->
                  [s EXCEPT !.folders =
                                Put(@, newFolderId,
                                    Folder(newFolderId, name, parentFolderId)),
                            !.tree = Put(Put(@, parentFolderId, treeFolder),
                                         newFolderId, {})],
              res |-> "folder"]

\* Storage.getIntoFolder (JS)
jsGetIntoFolder(s, name) ==
    LET currentFolderId == jsGetCurrentFolder(s)
    IN  IF name # DotDot
        THEN IF currentFolderId \notin DOMAIN s.tree
             THEN [store |-> s, res |-> "false"]
             ELSE LET named == jsFoldersNamed(s, currentFolderId, name)
                  IN  IF named # {}
                      THEN [store |-> [s EXCEPT !.path =
                                          Append(@, CHOOSE k \in named : TRUE)],
                            res |-> "true"]
                      ELSE [store |-> s, res |-> "false"]
        ELSE IF s.path # <<>>
        THEN [store |-> [s EXCEPT !.path = SubSeq(@, 1, Len(@) - 1)],
              res |-> "true"]
        ELSE [store |-> s, res |-> "false"]

\* Storage.getInstance (JS): `instance` is 0 for null, else the number of
\* the Storage object it refers to
getInstance(j) ==
    IF j.instance = 0
    THEN [j EXCEPT !.storages = Append(@, JsStorage),
                   !.instance = Len(j.storages) + 1]
    ELSE j

\* Storage.resetInstance (JS)
resetInstance(j) == getInstance([j EXCEPT !.instance = 0])

\* what the last call through a service did: the service, the Storage
\* object it acted on, that object before the call, and whether the call
\* was the first one since a resetInstance
JsNoCall == [op |-> "none", service |-> 0, store |-> 0, before |-> JsStorage,
             res |-> "none", fresh |-> FALSE]

\* the module after its load: `let instance = null`, no service built
JsModule ==
    [instance |-> 0, storages |-> <<>>, services |-> <<>>, fresh |-> FALSE,
     last |-> JsNoCall]

----------------------------------------------------------------------------
(* The command loop *)

\* `out` is what the last iteration showed: the command and its argument,
\* its outcome, the prompt printed and the cursor held before it ran, for a
\* cd .. typed right after a successful cd <name> the prompt and the cursor
\* from before that cd <name>, for a grep its options, the result vector
\* and what displayResults printed, for an ls the lines it printed, for a
\* tree the lines it printed, each with the id of its node, and
\* whether the command was typed right after an rm that removed the last
\* child of the current folder (removeFile then erases the folder's key);
\* `issued` are the ids given to a folder or a file since the start
NoDescend == [set |-> FALSE, prompt |-> <<>>, cursor |-> <<>>]

\* Storage::Storage and the state of a fresh FileSystemService
InitStorage ==
    /\ folders = (F0 :> Null) @@ (F1 :> Folder(F1, BaseFolder, FX))
    /\ files = EmptyMap
    /\ tree = (F0 :> {})
    /\ path = <<F0, F0, F1>>
    /\ status = "running"
    /\ out = [cmd |-> "start", arg |-> <<>>, res |-> "ok",
              prompt |-> <<>>, cursor |-> <<>>, descended |-> NoDescend,
              grep |-> NoGrep, listing |-> <<>>, afterPrune |-> FALSE,
              issued |-> {F0, F1}]

Init ==
    /\ InitStorage
    /\ history = NewHistory(FALSE)
    /\ created = NewCreated(FALSE)
    /\ js = JsModule

\* one iteration of the loop of main: the prompt evaluates currentPath(),
\* the command runs, and the facade's history entry evaluates currentPath()
\* once more when the command returned
AtPrompt == currentPath(State)

Finish(st) == IF st.status = "running" THEN [currentPath(st) EXCEPT !.res = st.res] ELSE st

Becomes(st, cmd, arg) ==
    /\ folders' = st.folders
    /\ files' = st.files
    /\ tree' = st.tree
    /\ path' = st.path
    /\ status' = st.status
    /\ out' = [cmd |-> cmd, arg |-> arg, res |-> st.res,
               prompt |-> currentPathString(State), cursor |-> path,
               descended |->
                   IF /\ cmd = "cd" /\ arg = DotDot
                      /\ out.cmd = "cd" /\ out.arg # DotDot /\ out.res = "ok"
                   THEN [set |-> TRUE, prompt |-> out.prompt,
                         cursor |-> out.cursor]
                   ELSE NoDescend,
               grep |-> st.grep,
               listing |-> st.listing,
               afterPrune |-> /\ out.cmd = "rm" /\ out.res = "ok"
                              /\ getCurrentFolder(State) \notin DOMAIN tree,
               issued |->
                   out.issued \cup
                   (CASE cmd = "touch" /\ st.res = "ok" -> {getNewFileId(AtPrompt)}
                      [] cmd = "mkdir" /\ st.res = "ok" -> {getNewFolderId(AtPrompt)}
                      [] OTHER -> {})]
    /\ history.on => history.nextId <= MaxHistoryId
    /\ history' =
           IF ~history.on \/ st.status # "running" THEN history
           ELSE IF cmd = "history"
           THEN [clearHistory(history) EXCEPT !.mark = history.nextId]
           ELSE IF cmd \in DOMAIN OperationType
           THEN addEntry(history, OperationType[cmd], arg)
           ELSE history
    /\ created' =
           IF ~created.on THEN created
           ELSE IF cmd \in {"touch", "mkdir"} /\ st.res = "ok"
           THEN [created EXCEPT !.order = Append(@, arg)]
           ELSE IF cmd \in {"rm", "rmdir"} /\ st.res = "ok"
           THEN [created EXCEPT !.order = SelectSeq(@, LAMBDA n : n # arg)]
           ELSE created
    /\ UNCHANGED js

Mkdir(name, maxKeys) ==
    /\ status = "running"
    /\ Cardinality(DOMAIN folders) <= maxKeys
    /\ Becomes(Finish(addFolder(AtPrompt, name, getCurrentFolder(AtPrompt))),
               "mkdir", name)

Rmdir(name) ==
    /\ status = "running"
    /\ Becomes(Finish(removeFolder(AtPrompt, name)), "rmdir", name)

Cd(name) ==
    /\ status = "running"
    /\ Becomes(Finish(getIntoFolder(AtPrompt, name)), "cd", name)

Pwd ==
    /\ status = "running"
    /\ Becomes(Ok(currentPath(AtPrompt)), "pwd", <<>>)

Ls ==
    /\ status = "running"
    /\ Becomes(Finish(showItemsInFolder(AtPrompt, getCurrentFolder(AtPrompt))),
               "ls", <<>>)

TouchCmd(name, maxKeys) ==
    /\ status = "running"
    /\ Cardinality(DOMAIN files) <= maxKeys
    /\ \E ind \in FirstDot(name) :
         Becomes(Finish(addFile(AtPrompt, name, getCurrentFolder(AtPrompt), ind)),
                 "touch", name)

Write(name, content) ==
    /\ status = "running"
    /\ Becomes(Finish(addContent(AtPrompt, name, content)), "write", name)

Rm(name) ==
    /\ status = "running"
    /\ Becomes(Finish(removeFile(AtPrompt, name)), "rm", name)

TreeCmd ==
    /\ status = "running"
    /\ Becomes(Finish(showFolderTree(AtPrompt)), "tree", <<>>)

\* grep <pattern> [filename] and grep -<options> <pattern>: the facade hands
\* the pattern and the options to GrepService::grep or grepInFile
GrepCmd(pattern, options) ==
    /\ status = "running"
    /\ Becomes(Finish(grep(AtPrompt, pattern, options)), "grep", pattern)

Next ==
    \/ \E name \in FolderNames : Mkdir(name, MaxFolderKeys)
    \/ \E name \in FolderNames : Rmdir(name)
    \/ \E name \in FolderNames \cup {DotDot} : Cd(name)
    \/ Pwd
    \/ Ls
    \/ \E name \in FileNames : TouchCmd(name, MaxFileKeys)
    \/ \E name \in FileNames, content \in Contents : Write(name, content)
    \/ \E name \in FileNames : Rm(name)
    \/ TreeCmd

Spec == Init /\ [][Next]_vars

----------------------------------------------------------------------------
(* A session of mkdir, cd, touch and rm only, with more files and two file *)
(* names: every behaviour of it is a behaviour of the command loop          *)

MaxFolderKeysTouch == 3
MaxFileKeysTouch == 3
FileNamesTouch == { <<"a", ".", "t">>, <<"b", ".", "t">> }
FolderNamesTouch == { <<"a", ".", "t">> }

NextTouch ==
    \/ \E name \in FolderNamesTouch : Mkdir(name, MaxFolderKeysTouch)
    \/ \E name \in FolderNamesTouch \cup {DotDot} : Cd(name)
    \/ \E name \in FileNamesTouch : TouchCmd(name, MaxFileKeysTouch)
    \/ \E name \in FileNamesTouch : Rm(name)

SpecTouch == Init /\ [][NextTouch]_vars

----------------------------------------------------------------------------
(* Sessions with grep. The contents are those a caller of                  *)
(* FileSystemService::addContent can pass (main's getline passes one line) *)
(* and the options those GrepService::grep takes. Every behaviour of       *)
(* SpecGrep and of SpecGrepTree is a behaviour of the command loop.        *)

Flags == [caseInsensitive : BOOLEAN, recursive : BOOLEAN,
          countOnly : BOOLEAN, invertMatch : BOOLEAN]
GrepOptions(flags, targetFile) ==
    [DefaultGrepOptions EXCEPT !.caseInsensitive = flags.caseInsensitive,
                               !.recursive = flags.recursive,
                               !.countOnly = flags.countOnly,
                               !.invertMatch = flags.invertMatch,
                               !.targetFile = targetFile]

\* touch, write, rm and grep in the initial folder: contents of several
\* lines, patterns that are literal, that hold a metacharacter and that do
\* not compile, every combination of -i, -v and -c, with and without a file
MaxFileKeysGrep == 1
NamesGrep == { <<"a", ".", "t">>, <<"b", ".", "t">> }
ContentsGrep ==
    { <<"h", NL, "(", "H">>,
      <<"H", "h", NL, NL>>,
      <<NL, "h">> }
PatternsGrep ==
    { <<"h">>, <<"H">>, <<"(", "h">>, <<".", "h">>, <<"[", "a", "-", "Z", "]">> }
OptionsGrep ==
    { GrepOptions(flags, t) :
        flags \in {f \in Flags : ~f.recursive},
        t \in { <<"a", ".", "t">>, EmptyStr } }

NextGrep ==
    \/ \E name \in NamesGrep : TouchCmd(name, MaxFileKeysGrep)
    \/ \E name \in NamesGrep, content \in ContentsGrep : Write(name, content)
    \/ \E name \in NamesGrep : Rm(name)
    \/ \E pattern \in PatternsGrep, options \in OptionsGrep :
          GrepCmd(pattern, options)

SpecGrep == Init /\ [][NextGrep]_vars

\* mkdir, cd, touch, write, rm and grep over a tree of folders: one content,
\* one pattern, with and without -r and a file
MaxFolderKeysGrepTree == 4
MaxFileKeysGrepTree == 1
NamesGrepTree == { <<"a", ".", "t">> }
ContentsGrepTree == { <<"h">> }
PatternsGrepTree == { <<"h">> }
OptionsGrepTree ==
    { GrepOptions(flags, t) :
        flags \in {f \in Flags : ~f.caseInsensitive /\ ~f.countOnly /\ ~f.invertMatch},
        t \in NamesGrepTree \cup {EmptyStr} }

NextGrepTree ==
    \/ \E name \in NamesGrepTree : Mkdir(name, MaxFolderKeysGrepTree)
    \/ \E name \in NamesGrepTree \cup {DotDot} : Cd(name)
    \/ \E name \in NamesGrepTree : TouchCmd(name, MaxFileKeysGrepTree)
    \/ \E name \in NamesGrepTree, content \in ContentsGrepTree :
          Write(name, content)
    \/ \E name \in NamesGrepTree : Rm(name)
    \/ \E pattern \in PatternsGrepTree, options \in OptionsGrepTree :
          GrepCmd(pattern, options)

SpecGrepTree == Init /\ [][NextGrepTree]_vars

----------------------------------------------------------------------------
(* A session of touch, write and rm in the initial folder with file names  *)
(* of every shape the File constructor tells apart: without a '.', with    *)
(* the '.' first, last and twice. Every behaviour of it is a behaviour of  *)
(* the command loop.                                                       *)

MaxFileKeysNames == 1
NamesShapes ==
    { <<"a", "b">>, <<".", "a">>, <<"a", ".">>, <<"a", ".", "b", ".", "c">> }

NextNames ==
    \/ \E name \in NamesShapes : TouchCmd(name, MaxFileKeysNames)
    \/ \E name \in NamesShapes, content \in Contents : Write(name, content)
    \/ \E name \in NamesShapes : Rm(name)

SpecNames == Init /\ [][NextNames]_vars

----------------------------------------------------------------------------
(* A session of mkdir, cd, rmdir and touch in which the folder name ".."   *)
(* is typed after mkdir and rmdir as well as after cd. Every behaviour of  *)
(* it is a behaviour of the command loop.                                  *)

MaxFolderKeysDots == 4
MaxFileKeysDots == 0
FolderNamesDots == { <<"a", ".", "t">>, DotDot }
FileNamesDots == { <<"a", ".", "t">> }

NextDots ==
    \/ \E name \in FolderNamesDots : Mkdir(name, MaxFolderKeysDots)
    \/ \E name \in FolderNamesDots : Cd(name)
    \/ \E name \in FolderNamesDots : Rmdir(name)
    \/ \E name \in FileNamesDots : TouchCmd(name, MaxFileKeysDots)

SpecDots == Init /\ [][NextDots]_vars

----------------------------------------------------------------------------
(* A session of cd, ls, mkdir and history clear whose log is observed      *)

MaxFolderKeysHistory == 3

\* history clear: the prompt, then FileSystemService::clearHistory
HistoryClear ==
    /\ status = "running"
    /\ LET st == AtPrompt
       IN  Becomes(IF st.status = "running" THEN Ok(st) ELSE st,
                   "history", Clear)

InitHistory ==
    /\ InitStorage
    /\ history = NewHistory(TRUE)
    /\ created = NewCreated(FALSE)
    /\ js = JsModule

NextHistory ==
    \/ \E name \in FolderNames : Mkdir(name, MaxFolderKeysHistory)
    \/ \E name \in FolderNames \cup {DotDot} : Cd(name)
    \/ Ls
    \/ HistoryClear

SpecHistory == InitHistory /\ [][NextHistory]_vars

----------------------------------------------------------------------------
(* A session of mkdir, touch, rm and ls in the base folder, in which the   *)
(* order of creation is observed; folders and files carry different names  *)

MaxFolderKeysLs == 4
MaxFileKeysLs == 1
FolderNamesLs == { <<"a", ".", "t">>, <<"c", ".", "t">>, <<"d", ".", "t">> }
FileNamesLs == { <<"b", ".", "t">> }

InitLs ==
    /\ InitStorage
    /\ history = NewHistory(FALSE)
    /\ created = NewCreated(TRUE)
    /\ js = JsModule

NextLs ==
    \/ \E name \in FolderNamesLs : Mkdir(name, MaxFolderKeysLs)
    \/ \E name \in FileNamesLs : TouchCmd(name, MaxFileKeysLs)
    \/ \E name \in FileNamesLs : Rm(name)
    \/ Ls

SpecLs == InitLs /\ [][NextLs]_vars

----------------------------------------------------------------------------
(* The JavaScript port: services are built, folders are created and        *)
(* entered through them, and the singleton is reset                        *)

JsCall(sv, op, r) ==
    /\ js' = [js EXCEPT !.storages[js.services[sv]] = r.store,
                        !.fresh = FALSE,
                        !.last = [op |-> op, service |-> sv,
                                  store |-> js.services[sv],
                                  before |-> js.storages[js.services[sv]],
                                  res |-> r.res, fresh |-> js.fresh]]
    /\ UNCHANGED <<folders, files, tree, path, status, out, history, created>>

\* new FileSystemService(): the facade, its FileService and its
\* FolderService each keep what Storage.getInstance() returned
JsNewService ==
    /\ Len(js.services) < MaxServices
    /\ LET j == getInstance(js)
       IN  js' = [j EXCEPT !.services = Append(@, j.instance)]
    /\ UNCHANGED <<folders, files, tree, path, status, out, history, created>>

\* Storage.resetInstance()
JsResetInstance ==
    /\ Len(js.storages) < MaxStorages
    /\ js' = [resetInstance(js) EXCEPT !.fresh = TRUE]
    /\ UNCHANGED <<folders, files, tree, path, status, out, history, created>>

\* POST /api/folders: createFolder(getCurrentFolder(), name) through the
\* service, that is through the store its FolderService holds
JsCreateFolder(sv, name) ==
    /\ sv <= Len(js.services)
    /\ LET s == js.storages[js.services[sv]]
       IN  /\ Cardinality(DOMAIN s.folders) <= MaxFolderKeysJs
           /\ JsCall(sv, "createFolder",
                     jsAddFolder(s, name, jsGetCurrentFolder(s)))

\* getIntoFolder(name) through the service
JsGetIntoFolder(sv, name) ==
    /\ sv <= Len(js.services)
    /\ JsCall(sv, "getIntoFolder",
              jsGetIntoFolder(js.storages[js.services[sv]], name))

NextReset ==
    \/ JsNewService
    \/ JsResetInstance
    \/ \E sv \in 1..MaxServices, name \in FolderNames :
           JsCreateFolder(sv, name)
    \/ \E sv \in 1..MaxServices, name \in FolderNames \cup {DotDot} :
           JsGetIntoFolder(sv, name)

SpecReset == Init /\ [][NextReset]_vars

----------------------------------------------------------------------------
(* Observers used by the properties below *)

currentFolderId(st) == getCurrentFolder(st)

IsFileId(id) == FirstChar(id) = "f"

LiveFolderIn(st, id) == id \in DOMAIN st.folders /\ st.folders[id] # Null
LiveFileIn(st, id) == id \in DOMAIN st.files /\ st.files[id] # Null
LiveIn(st, id) == IF IsFileId(id) THEN LiveFileIn(st, id) ELSE LiveFolderIn(st, id)

ChildrenIn(st, id) == IF id \in DOMAIN st.tree THEN st.tree[id] ELSE {}

EntryName(st, id) ==
    IF IsFileId(id) THEN getFileName(st.files[id]) ELSE st.folders[id].name

ParentOf(st, id) ==
    IF IsFileId(id) THEN st.files[id].folderId ELSE st.folders[id].folderId

\* the current folder of st has a live child of that kind ("f" or "F") and name
HasChild(st, kind, name) ==
    \E k \in ChildrenIn(st, currentFolderId(st)) :
        FirstChar(k) = kind /\ LiveIn(st, k) /\ EntryName(st, k) = name

\* the ids of the subtree of node in the tree index of st
RECURSIVE SubtreeIds(_, _, _)
SubtreeIds(st, node, fuel) ==
    {node} \cup
    (IF fuel = 0 \/ IsFileId(node) THEN {}
     ELSE UNION { SubtreeIds(st, k, fuel - 1) : k \in ChildrenIn(st, node) })

TreeDepth(st) == Cardinality(DOMAIN st.tree) + 1

LiveIds(st) ==
    {id \in DOMAIN st.folders : LiveFolderIn(st, id)} \cup
    {id \in DOMAIN st.files : LiveFileIn(st, id)}

\* the folders the namespace starts with: the root and its first child
Roots == {F0, F1}

\* following parentId from id comes to an id that is no live record without
\* visiting an id twice
RECURSIVE ParentChainEnds(_, _, _)
ParentChainEnds(st, id, seen) ==
    IF ~LiveIn(st, id) THEN TRUE
    ELSE IF id \in seen THEN FALSE
    ELSE ParentChainEnds(st, ParentOf(st, id), seen \cup {id})

----------------------------------------------------------------------------
(* Properties *)

\* C1: the id minted by a successful touch (mkdir) is not the id of a file
\* (folder) record that is in the registry when the command is issued
C1_MintedIdIsFresh ==
    [][ /\ (out'.cmd = "touch" /\ out'.res = "ok")
           => ~LiveFileIn(AtPrompt, getNewFileId(AtPrompt))
        /\ (out'.cmd = "mkdir" /\ out'.res = "ok")
           => ~LiveFolderIn(AtPrompt, getNewFolderId(AtPrompt)) ]_vars

\* C2: no folder has two live children with the same name, whatever their kinds
C2_SiblingNamesUnique ==
    \A P \in DOMAIN tree : \A c1, c2 \in tree[P] :
        (c1 # c2 /\ LiveIn(State, c1) /\ LiveIn(State, c2))
            => EntryName(State, c1) # EntryName(State, c2)

\* C3: a touch (mkdir) whose name is that of a live child file (folder) of the
\* current folder fails and leaves registry, tree index and cursor as they were
C3_DuplicateCreateChangesNothing ==
    [][ ( \/ (out'.cmd = "touch" /\ HasChild(AtPrompt, "f", out'.arg))
          \/ (out'.cmd = "mkdir" /\ HasChild(AtPrompt, "F", out'.arg)) )
        => ( /\ out'.res = "fail"
             /\ folders' = AtPrompt.folders
             /\ files' = files
             /\ tree' = tree
             /\ path' = path ) ]_vars

\* C4: the cursor always holds at least one id, and cd .. on a cursor that
\* holds one id fails and leaves the cursor as it was
C4_AscendClamped ==
    /\ [](Len(path) >= 1)
    /\ [][ (out'.cmd = "cd" /\ out'.arg = DotDot /\ Len(path) = 1)
           => (out'.res = "fail" /\ path' = path) ]_vars

\* C5: rmdir of a live child folder A of the current folder completes, and
\* afterwards no id of A's subtree is a live record, A is not in the current
\* folder's child set and the tree index has no key for A or a folder below it
C5_RemoveFolderCascades ==
    [][ \A A \in DOMAIN AtPrompt.folders :
          ( /\ out'.cmd = "rmdir"
            /\ FirstChar(A) = "F"
            /\ A \in ChildrenIn(AtPrompt, currentFolderId(AtPrompt))
            /\ LiveFolderIn(AtPrompt, A)
            /\ AtPrompt.folders[A].name = out'.arg )
          => ( /\ out'.res = "ok"
               /\ A \notin ChildrenIn(State', currentFolderId(State'))
               /\ \A id \in SubtreeIds(AtPrompt, A, TreeDepth(AtPrompt)) :
                     /\ ~LiveIn(State', id)
                     /\ (~IsFileId(id) => id \notin DOMAIN tree') ) ]_vars

\* C6: every id in a child set of the tree index is a live record whose
\* parentId is the key of that child set
C6_ChildSetsMatchParents ==
    \A P \in DOMAIN tree : \A c \in tree[P] :
        LiveIn(State, c) /\ ParentOf(State, c) = P

\* C7: the cursor is non-empty, its bottom is the root, every id on it is a
\* live folder, and every id above the bottom is a child of the id below it
C7_CursorWellFormed ==
    /\ path # <<>>
    /\ path[1] = F0
    /\ \A i \in 1..Len(path) : LiveFolderIn(State, path[i])
    /\ \A i \in 2..Len(path) : path[i] \in ChildrenIn(State, path[i - 1])

\* C8: every live record other than the two initial folders is in the
\* subtree of one of them, is in exactly one child set, and its chain of
\* parentId links visits no id twice
C8_OneChainFromRoot ==
    \A id \in LiveIds(State) \ Roots :
        /\ \E r \in Roots : id \in SubtreeIds(State, r, TreeDepth(State))
        /\ Cardinality({P \in DOMAIN tree : id \in tree[P]}) = 1
        /\ ParentChainEnds(State, id, {})

\* C9: no command dereferences a null or absent record
C9_NoNullDereference == status # "crashed"

\* C10: cd .. typed right after a successful cd <name> succeeds and leaves
\* the cursor, the current folder id and the current path as they were
\* before the cd <name>
C10_DescendAscendRoundTrip ==
    out.descended.set
        => ( /\ out.res = "ok"
             /\ path = out.descended.cursor
             /\ currentFolderId(State) =
                    currentFolderId([path |-> out.descended.cursor])
             /\ currentPathString(State) = out.descended.prompt )

\* a cd .. has run right after a successful cd <name> from a folder below
\* the bottom of the cursor
C10_Witness ==
    /\ out.descended.set /\ out.cmd = "cd" /\ out.arg = DotDot
    /\ Len(out.descended.cursor) > 1

\* the cursor after descending from the initial current folder; its ids
\* above that folder, bottom first
InitialCursor == <<F0, F0, F1>>
BelowInitial(p) == Len(p) > 3 /\ SubSeq(p, 1, 3) = InitialCursor
DescendedIds(p) == SubSeq(p, 4, Len(p))

\* "/n1/.../nk" for the names of the folders ids
RECURSIVE SlashJoined(_, _)
SlashJoined(st, ids) ==
    IF ids = <<>> THEN <<>>
    ELSE <<"/">> \o st.folders[Head(ids)].name \o SlashJoined(st, Tail(ids))

\* C11: after descending from the initial current folder through folders
\* named n1, ..., nk (k >= 1), the path of the folder reached is "/n1/.../nk"
C11_PathIsSlashJoinedNames ==
    ( /\ BelowInitial(path)
      /\ \A i \in 4..Len(path) : LiveFolderIn(State, path[i]) )
    => getPath(State, path[Len(path)]).path = SlashJoined(State, DescendedIds(path))

\* C12: whenever the cursor is the initial one, the current path is "/"
C12_RootPathIsSlash ==
    path = InitialCursor => currentPathString(State) = <<"/">>

Breaks(content) == {i \in 1..Len(content) : content[i] = NL}
NumDocLines(content) ==
    Cardinality(Breaks(content))
      + (IF content # <<>> /\ content[Len(content)] # NL THEN 1 ELSE 0)
BreakNo(content, k) ==
    IF k = 0 THEN 0
    ELSE IF k > Cardinality(Breaks(content)) THEN Len(content) + 1
    ELSE CHOOSE i \in Breaks(content) :
             Cardinality({j \in Breaks(content) : j <= i}) = k
DocLine(content, k) ==
    SubSeq(content, BreakNo(content, k - 1) + 1, BreakNo(content, k) - 1)

\* the child file of the current folder of st that has that name
SearchedFile(st, name) ==
    CHOOSE k \in ChildrenIn(st, currentFolderId(st)) :
        IsFileId(k) /\ LiveFileIn(st, k) /\ getFileName(st.files[k]) = name

\* the last command was a grep of a file of the current folder that was found
GrepOfFile ==
    /\ out.cmd = "grep" /\ out.res = "ok"
    /\ out.grep.options.targetFile # EmptyStr

SearchedContent == files[SearchedFile(State, out.grep.options.targetFile)].content

LineNumbers(results) == {results[j].lineNumber : j \in 1..Len(results)}

\* the result vector of the search the last grep made, run with other options
ResultsWith(options) == grep(State, out.arg, options).grep.results

\* C14: the records of a search of one file are, in document order, one for
\* each line of the file that matches and none for another line, each with
\* the line's position counted from 1, the line's text and the file's id
C14_SearchFileRecords ==
    GrepOfFile =>
        LET R == out.grep.results
            hits == {n \in 1..NumDocLines(SearchedContent) :
                        matchesPattern(DocLine(SearchedContent, n), out.arg,
                                       out.grep.options.caseInsensitive,
                                       out.grep.options.invertMatch)}
        IN  /\ Len(R) = Cardinality(hits)
            /\ \A j \in 1..Len(R) :
                  /\ R[j].lineNumber \in hits
                  /\ R[j].matchedLine = DocLine(SearchedContent, R[j].lineNumber)
                  /\ R[j].fileId = SearchedFile(State, out.grep.options.targetFile)
            /\ \A i, j \in 1..Len(R) : i < j => R[i].lineNumber < R[j].lineNumber

\* a search of a file of two lines has returned its second line only
C14_Witness ==
    /\ GrepOfFile
    /\ NumDocLines(SearchedContent) = 2
    /\ Len(out.grep.results) = 1
    /\ out.grep.results[1].lineNumber = 2

\* C16: for a file with content, the lines returned with invertMatch and the
\* lines returned without it are disjoint and together are every line of the
\* file once
C16_InvertIsComplement ==
    (GrepOfFile /\ SearchedContent # <<>>) =>
        LET R == out.grep.results
            Q == ResultsWith([out.grep.options EXCEPT !.invertMatch = ~@])
        IN  /\ LineNumbers(R) \cap LineNumbers(Q) = {}
            /\ LineNumbers(R) \cup LineNumbers(Q) = 1..NumDocLines(SearchedContent)
            /\ Len(R) + Len(Q) = NumDocLines(SearchedContent)

\* an inverted search has returned some lines of a file and not all of them
C16_Witness ==
    /\ GrepOfFile /\ out.grep.options.invertMatch
    /\ out.grep.results # <<>>
    /\ Len(out.grep.results) < NumDocLines(SearchedContent)

\* C17: with countOnly the result is the number of records the same search
\* produces without countOnly, also when that number is zero
C17_CountIsNumberOfRecords ==
    ( /\ out.cmd = "grep" /\ out.grep.options.countOnly
      /\ out.grep.display.kind # "notfound" )
    => out.grep.display =
           [kind |-> "count",
            count |-> Len(ResultsWith([out.grep.options EXCEPT !.countOnly = FALSE]))]

\* the characters std::regex reads as operators, among those of the model
Metacharacters == {".", "(", "[", "]"}
IsLiteral(pattern) == \A i \in 1..Len(pattern) : pattern[i] \notin Metacharacters

\* C18: with caseInsensitive and a literal pattern the lines returned are
\* those whose lowercased text contains the lowercased pattern, and among
\* them is every line the case-sensitive search returns
C18_CaseInsensitiveLiteral ==
    ( /\ GrepOfFile /\ IsLiteral(out.arg)
      /\ out.grep.options.caseInsensitive /\ ~out.grep.options.invertMatch )
    => LET R == out.grep.results
           S == ResultsWith([out.grep.options EXCEPT !.caseInsensitive = FALSE])
       IN  /\ LineNumbers(R) =
                 {n \in 1..NumDocLines(SearchedContent) :
                     find(transform_tolower(DocLine(SearchedContent, n)),
                          transform_tolower(out.arg))}
           /\ LineNumbers(S) \subseteq LineNumbers(R)

\* a case-insensitive search for a literal has returned a line that the
\* case-sensitive search returns and a line that it does not return
C18_Witness ==
    /\ GrepOfFile /\ IsLiteral(out.arg)
    /\ out.grep.options.caseInsensitive /\ ~out.grep.options.invertMatch
    /\ LET S == ResultsWith([out.grep.options EXCEPT !.caseInsensitive = FALSE])
       IN  /\ S # <<>>
           /\ LineNumbers(S) # LineNumbers(out.grep.results)

\* the files of a folder: its children in the tree index whose record names
\* it as their parent
DirectFiles(st, folderId) ==
    {k \in ChildrenIn(st, folderId) :
        IsFileId(k) /\ LiveFileIn(st, k) /\ ParentOf(st, k) = folderId}

\* the files of the folders below a folder, at any depth
DescendantFiles(st, folderId) ==
    UNION { DirectFiles(st, d) :
              d \in {x \in SubtreeIds(st, folderId, TreeDepth(st)) :
                        ~IsFileId(x) /\ x # folderId} }

\* some line of the file matches
HasMatch(st, k, pattern, options) ==
    \E n \in 1..NumDocLines(st.files[k].content) :
        matchesPattern(DocLine(st.files[k].content, n), pattern,
                       options.caseInsensitive, options.invertMatch)

FileIds(results) == {results[j].fileId : j \in 1..Len(results)}

\* the last command was a grep of the current folder
GrepOfFolder == out.cmd = "grep" /\ out.grep.options.targetFile = EmptyStr

\* C15: a grep of the current folder without recursive returns the matches
\* of the files of the current folder and of no other file; with recursive
\* it returns those of the files of the folders below it as well
C15_RecursiveOnlyWhenSet ==
    GrepOfFolder =>
        LET cur == currentFolderId(State)
            own == DirectFiles(State, cur)
            below == DescendantFiles(State, cur)
            matching(S) == {k \in S : HasMatch(State, k, out.arg, out.grep.options)}
        IN  IF out.grep.options.recursive
            THEN /\ matching(own \cup below) \subseteq FileIds(out.grep.results)
                 /\ FileIds(out.grep.results) \subseteq own \cup below
            ELSE FileIds(out.grep.results) = matching(own)

\* C19: a grep with a target file returns records of the file of that name
\* of the current folder and of no other file, whatever recursive says; when
\* the current folder lists no file of that name it reports not-found and
\* returns no record
C19_TargetFileOnly ==
    (out.cmd = "grep" /\ out.grep.options.targetFile # EmptyStr) =>
        LET cur == currentFolderId(State)
            listed == {k \in ChildrenIn(State, cur) :
                          /\ IsFileId(k) /\ LiveFileIn(State, k)
                          /\ getFileName(files[k]) = out.grep.options.targetFile}
            named == listed \cap DirectFiles(State, cur)
        IN  /\ FileIds(out.grep.results) \subseteq named
            /\ \A k \in named :
                  /\ out.res = "ok"
                  /\ HasMatch(State, k, out.arg, out.grep.options)
                        => k \in FileIds(out.grep.results)
            /\ listed = {} =>
                  /\ out.res = "fail"
                  /\ out.grep.display.kind = "notfound"
                  /\ out.grep.results = <<>>

\* C20: a grep leaves the folder and file registries with their key sets
\* and contents, the tree index and the cursor as they were at the prompt
C20_GrepChangesNothing ==
    [][ out'.cmd = "grep"
        => ( /\ folders' = AtPrompt.folders
             /\ files' = files
             /\ tree' = tree
             /\ path' = path ) ]_vars


----------------------------------------------------------------------------
(* Frames and effects of the commands *)

\* C21: the tree command (Storage::showFolderTree over showDFS) leaves the
\* registry of folders and files, the tree index with its key set, and the
\* cursor as they were when the command was typed
C21_TreeChangesNothing ==
    [][out'.cmd = "tree" =>
          /\ folders' = AtPrompt.folders
          /\ files' = files
          /\ tree' = tree
          /\ path' = path
          /\ status' = "running"]_vars

\* C22: a touch <s> that is not turned down as a duplicate leaves the
\* process running and a file in the current folder whose getFileName() is s,
\* so that validateFile(s) finds it and a second touch <s> is a duplicate
C22_FileNameIsCreationString ==
    (out.cmd = "touch" /\ out.res # "fail") =>
        /\ status = "running"
        /\ HasChild(State, "f", out.arg)
        /\ validate(State, "f", out.arg).r.res = "found"
        /\ \A ind \in FirstDot(out.arg) :
              addFile(State, out.arg, currentFolderId(State), ind).res = "fail"

\* the keys of all three maps of st
AllKeys(st) == DOMAIN st.folders \cup DOMAIN st.files \cup DOMAIN st.tree

\* the entries of the folders of st: the pairs of a folder and a child id
\* whose record exists, with that record
Entries(st) ==
    { <<p, c>> \in AllKeys(st) \X AllKeys(st) :
          c \in ChildrenIn(st, p) /\ LiveIn(st, c) }
RecordOf(st, id) == IF IsFileId(id) THEN st.files[id] ELSE st.folders[id]

\* every entry of pre other than those of `gone` is an entry of post with the
\* same record, and post has no entry that pre has not
SameEntriesBut(pre, post, gone) ==
    /\ \A e \in Entries(pre) \ gone :
          e \in Entries(post) /\ RecordOf(post, e[2]) = RecordOf(pre, e[2])
    /\ Entries(post) \subseteq Entries(pre)

\* the child sets of post are those of pre (a missing key is an empty set)
SameChildSets(pre, post) ==
    \A p \in AllKeys(pre) \cup AllKeys(post) :
        ChildrenIn(post, p) = ChildrenIn(pre, p)

\* C23: rm <name> typed where the current folder has a file of that name
\* erases that file's record and takes its id out of the current folder's
\* child set, and changes no folder record, no other file record, no other
\* entry of any folder and not the cursor; typed where there is no such file
\* it fails and changes no record, no child set and not the cursor
C23_RemoveFileFrame ==
    [][out'.cmd = "rm" =>
          LET pre == AtPrompt
              cur == currentFolderId(pre)
          IN  /\ status' = "running"
              /\ path' = path
              /\ folders' = pre.folders
              /\ IF HasChild(pre, "f", out'.arg)
                 THEN /\ out'.res = "ok"
                      /\ \E k \in ChildrenIn(pre, cur) :
                            /\ IsFileId(k) /\ LiveFileIn(pre, k)
                            /\ getFileName(pre.files[k]) = out'.arg
                            /\ files' = Erase(pre.files, k)
                            /\ ChildrenIn(State', cur) = ChildrenIn(pre, cur) \ {k}
                            /\ \A p \in (AllKeys(pre) \cup AllKeys(State')) \ {cur} :
                                  ChildrenIn(State', p) = ChildrenIn(pre, p)
                            /\ SameEntriesBut(pre, State', {<<cur, k>>})
                 ELSE /\ out'.res = "fail"
                      /\ files' = pre.files
                      /\ SameChildSets(pre, State')]_vars

\* C24: rmdir <name> changes nothing outside the removed subtree: every file
\* and folder that is not the removed folder or below it keeps its record
\* and its child set (the parent loses the removed folder only), and the
\* cursor is unchanged; where the current folder has no folder of that name
\* the command fails and changes no record, no child set and not the cursor
C24_RemoveFolderFrame ==
    [][out'.cmd = "rmdir" =>
          LET pre == AtPrompt
              cur == currentFolderId(pre)
          IN  /\ status' = "running"
              /\ path' = path
              /\ IF HasChild(pre, "F", out'.arg)
                 THEN /\ out'.res = "ok"
                      /\ \E k \in ChildrenIn(pre, cur) :
                            /\ ~IsFileId(k) /\ LiveFolderIn(pre, k)
                            /\ pre.folders[k].name = out'.arg
                            /\ LET sub == SubtreeIds(pre, k, TreeDepth(pre))
                               IN  /\ \A id \in AllKeys(pre) \ sub :
                                        /\ LiveFolderIn(pre, id) =>
                                             /\ LiveFolderIn(State', id)
                                             /\ folders'[id] = pre.folders[id]
                                        /\ LiveFileIn(pre, id) =>
                                             /\ LiveFileIn(State', id)
                                             /\ files'[id] = pre.files[id]
                                        /\ ChildrenIn(State', id) =
                                             ChildrenIn(pre, id) \ {k}
                                   /\ SameEntriesBut(pre, State',
                                          { e \in Entries(pre) :
                                              e[1] \in sub \/ e = <<cur, k>> })
                 ELSE /\ out'.res = "fail"
                      /\ folders' = pre.folders
                      /\ files' = pre.files
                      /\ SameChildSets(pre, State')]_vars

\* C25: rmdir never deletes a folder whose id is on the cursor: every id on
\* the cursor keeps the record it had, and after every rmdir the cursor is
\* not empty and each id on it, the current folder and the ones below it on
\* the stack, is a folder with a record
C25_CursorFoldersLive ==
    [][out'.cmd = "rmdir" =>
          /\ path' = path
          /\ path' # <<>>
          /\ \A i \in 1..Len(path') :
                /\ LiveFolderIn(AtPrompt, path'[i]) =>
                      folders'[path'[i]] = AtPrompt.folders[path'[i]]
                /\ LiveFolderIn(State', path'[i])]_vars

C27_IdsNeverReissued ==
    [][/\ (out'.cmd = "touch" /\ out'.res = "ok") =>
             getNewFileId(AtPrompt) \notin out.issued
       /\ (out'.cmd = "mkdir" /\ out'.res = "ok") =>
             getNewFolderId(AtPrompt) \notin out.issued]_vars

\* the child sets of post are those of pre but for id, new in the set of p
AddsChild(pre, post, p, id) ==
    /\ id \notin ChildrenIn(pre, p)
    /\ \A q \in AllKeys(pre) \cup AllKeys(post) :
          ChildrenIn(post, q) =
              IF q = p THEN ChildrenIn(pre, p) \cup {id} ELSE ChildrenIn(pre, q)

\* C28: a successful mkdir <n> in folder P adds one folder record, with name
\* n and parent P, under a key that held no record, puts the key in P's
\* child set and leaves the new folder without children; a successful
\* touch <n> adds one file record, with file name n, parent P and no content,
\* under a key that held no record, and puts the key in P's child set; both
\* leave every other record, every other child set and the cursor as they were
C28_CreateEffects ==
    [][LET pre == AtPrompt
           P   == currentFolderId(pre)
       IN  /\ (out'.cmd = "mkdir" /\ out'.res = "ok") =>
                 LET id == getNewFolderId(pre)
                 IN  /\ ~LiveFolderIn(pre, id)
                     /\ folders' = Put(pre.folders, id, Folder(id, out'.arg, P))
                     /\ files' = pre.files
                     /\ AddsChild(pre, State', P, id)
                     /\ ChildrenIn(State', id) = {}
                     /\ path' = path
           /\ (out'.cmd = "touch" /\ out'.res = "ok") =>
                 LET id == getNewFileId(pre)
                 IN  /\ ~LiveFileIn(pre, id)
                     /\ id \in DOMAIN files'
                     /\ files' = Put(pre.files, id, files'[id])
                     /\ getFileName(files'[id]) = out'.arg
                     /\ files'[id].folderId = P
                     /\ files'[id].content = <<>>
                     /\ folders' = pre.folders
                     /\ AddsChild(pre, State', P, id)
                     /\ path' = path]_vars

\* C29: a touch or a mkdir typed where the current folder id is not the id
\* of a folder with a record (the null root F0, or the empty id the facade
\* passes when the cursor is empty) is turned down and adds no record and no
\* entry of the tree index
C29_CreateNeedsLiveParent ==
    [][LET pre == AtPrompt
       IN  (/\ out'.cmd \in {"touch", "mkdir"}
            /\ ~LiveFolderIn(pre, currentFolderId(pre))) =>
               /\ out'.res = "fail"
               /\ status' = "running"
               /\ DOMAIN folders' = DOMAIN pre.folders
               /\ DOMAIN files' = DOMAIN pre.files
               /\ SameChildSets(pre, State')]_vars

\* C30: cd <name>, for a name mkdir accepts (".." where the current folder
\* has a folder of that name included), succeeds exactly when the current
\* folder has a folder of that name, a file of that name not counting; when
\* it succeeds the cursor is the old one with that folder's id pushed, when
\* it fails the cursor, the records and the child sets are unchanged
C30_DescendByName ==
    [][LET pre == AtPrompt
       IN  (/\ out'.cmd = "cd"
            /\ out'.arg # DotDot \/ HasChild(pre, "F", DotDot)) =>
               /\ status' = "running"
               /\ folders' = pre.folders
               /\ files' = pre.files
               /\ SameChildSets(pre, State')
               /\ IF HasChild(pre, "F", out'.arg)
                  THEN /\ out'.res = "ok"
                       /\ \E k \in ChildrenIn(pre, currentFolderId(pre)) :
                             /\ ~IsFileId(k) /\ LiveFolderIn(pre, k)
                             /\ pre.folders[k].name = out'.arg
                             /\ path' = Append(path, k)
                  ELSE /\ out'.res = "fail"
                       /\ path' = path]_vars

\* C31: the file a successful touch makes has no content; write <name> <c>
\* typed where the current folder has a file of that name makes the content
\* of that file c and leaves every other record, the file of that name in
\* any other folder included, every child set and the cursor as they were;
\* typed where there is no such file it fails and changes nothing
C31_AddContentEffects ==
    [][LET pre == AtPrompt
           cur == currentFolderId(pre)
       IN  /\ (out'.cmd = "touch" /\ out'.res = "ok") =>
                 /\ LiveFileIn(State', getNewFileId(pre))
                 /\ files'[getNewFileId(pre)].content = <<>>
           /\ out'.cmd = "write" =>
                 /\ status' = "running"
                 /\ path' = path
                 /\ folders' = pre.folders
                 /\ SameChildSets(pre, State')
                 /\ IF HasChild(pre, "f", out'.arg)
                    THEN /\ out'.res = "ok"
                         /\ \E k \in ChildrenIn(pre, cur), c \in Contents :
                               /\ IsFileId(k) /\ LiveFileIn(pre, k)
                               /\ getFileName(pre.files[k]) = out'.arg
                               /\ files' = [pre.files EXCEPT ![k].content = c]
                               /\ \A e \in Entries(pre) :
                                     e[2] = k => e[1] = cur
                    ELSE /\ out'.res = "fail"
                         /\ files' = pre.files]_vars

\* the depth a line of the tree command shows: the number of "  |" before
\* the "- ", and the name that follows the "- "
RECURSIVE LineDepth(_)
LineDepth(line) ==
    IF Len(line) >= 3 /\ SubSeq(line, 1, 3) = Bar
    THEN 1 + LineDepth(SubSeq(line, 4, Len(line)))
    ELSE 0
LineName(line) == SubSeq(line, 3 * LineDepth(line) + 3, Len(line))

\* the line under which line i of a tree listing is nested: the last line
\* before it that is one level less deep (0 when there is none)
ParentLine(L, i) ==
    LET above == { j \in 1..(i - 1) :
                      LineDepth(L[j].line) = LineDepth(L[i].line) - 1 }
    IN  IF above = {} THEN 0 ELSE CHOOSE j \in above : \A k \in above : k <= j

\* C32: the tree command typed in a folder that has a record prints exactly
\* one line for every file and folder of that folder's subtree and no other
\* line, each with the entry's name and nested as in the tree index: the
\* first line is the folder itself, the lines nested directly under the line
\* of a folder are exactly those of its child set, and no line is nested
\* under the line of a file
C32_TreeListsSubtree ==
    (out.cmd = "tree" /\ LiveFolderIn(State, currentFolderId(State))) =>
        /\ status = "running"
        /\ LET L == out.listing
               cur == currentFolderId(State)
           IN  /\ Len(L) >= 1 /\ L[1].id = cur /\ LineDepth(L[1].line) = 0
               /\ \A i, j \in 1..Len(L) : i # j => L[i].id # L[j].id
               /\ { L[i].id : i \in 1..Len(L) } =
                      SubtreeIds(State, cur, TreeDepth(State))
               /\ \A i \in 1..Len(L) :
                     /\ LiveIn(State, L[i].id)
                     /\ LineName(L[i].line) = EntryName(State, L[i].id)
                     /\ L[i].line = SubSeq(L[i].line, 1, 3 * LineDepth(L[i].line))
                                      \o Dash \o LineName(L[i].line)
                     /\ i > 1 => ParentLine(L, i) # 0
                     /\ { L[j].id : j \in { k \in 1..Len(L) : ParentLine(L, k) = i } }
                           = IF IsFileId(L[i].id) THEN {}
                             ELSE ChildrenIn(State, L[i].id)

\* the folders of the subtree of a folder, itself included, and the file ids
\* in the child sets of those folders
SubtreeFolders(st, folderId) ==
    {x \in SubtreeIds(st, folderId, TreeDepth(st)) : ~IsFileId(x)}
SubtreeFiles(st, folderId) ==
    {x \in SubtreeIds(st, folderId, TreeDepth(st)) : IsFileId(x)}

\* the positions of a result vector that hold records of the files of S
PositionsOf(results, S) == {j \in 1..Len(results) : results[j].fileId \in S}
Contiguous(P) == \A a, c \in P : \A b \in a..c : b \in P

\* C33: in the result of a recursive grep of the current folder every line
\* that matches, of every file of the subtree, has one record and no line
\* has two; the records of one file are contiguous and in increasing line
\* number; the records of the files of a folder come before those of the
\* files below any of its subfolders; and the records from the subtree of
\* one subfolder are contiguous
C33_RecursiveOrder ==
    (GrepOfFolder /\ out.grep.options.recursive) =>
        /\ status = "running"
        /\ LET R == out.grep.results
               cur == currentFolderId(State)
               hits(k) == IF LiveFileIn(State, k)
                          THEN {n \in 1..NumDocLines(files[k].content) :
                                   matchesPattern(DocLine(files[k].content, n),
                                                  out.arg,
                                                  out.grep.options.caseInsensitive,
                                                  out.grep.options.invertMatch)}
                          ELSE {}
           IN  /\ \A k \in SubtreeFiles(State, cur) : \A n \in hits(k) :
                     Cardinality({j \in 1..Len(R) :
                                     R[j].fileId = k /\ R[j].lineNumber = n}) = 1
               /\ \A j \in 1..Len(R) :
                     /\ R[j].fileId \in SubtreeFiles(State, cur)
                     /\ R[j].lineNumber \in hits(R[j].fileId)
               /\ \A k \in FileIds(R) : Contiguous(PositionsOf(R, {k}))
               /\ \A i, j \in 1..Len(R) :
                     (i < j /\ R[i].fileId = R[j].fileId) =>
                         R[i].lineNumber < R[j].lineNumber
               /\ \A X \in SubtreeFolders(State, cur) :
                     /\ Contiguous(PositionsOf(R, SubtreeFiles(State, X)))
                     /\ \A Y \in {y \in ChildrenIn(State, X) : ~IsFileId(y)} :
                           \A i \in PositionsOf(R, {k \in ChildrenIn(State, X) : IsFileId(k)}) :
                              \A j \in PositionsOf(R, SubtreeFiles(State, Y)) : i < j

\* C34: a grep, whatever its options and wherever it is typed, does not end
\* the process: it returns a result vector, empty or not, or reports that the
\* file was not found
C34_GrepCompletes ==
    out.cmd = "grep" =>
        /\ status = "running"
        /\ out.res \in {"ok", "fail"}
        /\ out.grep.display.kind # "nothing"

\* a grep of the current folder has completed where the child set of the
\* current folder holds the id of a file that has no record
C34_Witness ==
    /\ GrepOfFolder /\ status = "running" /\ out.res = "ok"
    /\ \E k \in ChildrenIn(State, currentFolderId(State)) :
          IsFileId(k) /\ ~LiveFileIn(State, k)

\* C35: for the content of every file, splitLines returns no line when the
\* content is empty and otherwise the texts between the line breaks in
\* order, the text after the last break included when there is one and no
\* empty line for a break at the very end; and a grep of a file without
\* content returns no record, whatever the pattern, with invertMatch as well
C35_SplitLines ==
    /\ \A k \in DOMAIN files :
          LiveFileIn(State, k) =>
              LET content == files[k].content
                  lines == splitLines(content)
              IN  /\ (content = <<>>) <=> (lines = <<>>)
                  /\ Len(lines) = NumDocLines(content)
                  /\ \A n \in 1..Len(lines) : lines[n] = DocLine(content, n)
    /\ (GrepOfFile /\ SearchedContent = <<>>) =>
          /\ out.grep.results = <<>>
          /\ out.grep.display.kind = "none"

\* a grep with invertMatch of a file without content has returned nothing
\* while another file holds a content that ends with a line break
C35_Witness ==
    /\ GrepOfFile /\ SearchedContent = <<>>
    /\ out.grep.options.invertMatch
    /\ out.grep.results = <<>>
    /\ \E k \in DOMAIN files :
          /\ LiveFileIn(State, k) /\ files[k].content # <<>>
          /\ files[k].content[Len(files[k].content)] = NL

C37_ResetIsolates ==
    (js.last.op # "none" /\ js.last.fresh) => js.last.before = JsStorage

\* C38: ls prints the children of the folder in the order in which they
\* were created, whatever was removed in between
C38_ListingInCreationOrder ==
    (created.on /\ out.cmd = "ls" /\ out.res = "ok")
        => out.listing = created.order

\* C39: the log never holds more than MAX_HISTORY_SIZE entries, an append
\* to a full log drops exactly the oldest entry and keeps the order of the
\* others, and the ids of the entries increase strictly in log order, also
\* after history clear
C39_HistoryBounded ==
    [][ /\ Len(history'.historyEntries) <= MAX_HISTORY_SIZE
        /\ \A i \in 1..(Len(history'.historyEntries) - 1) :
              history'.historyEntries[i].id < history'.historyEntries[i + 1].id
        /\ (/\ Len(history.historyEntries) = MAX_HISTORY_SIZE
            /\ history'.nextId # history.nextId)
              => /\ Len(history'.historyEntries) = MAX_HISTORY_SIZE
                 /\ SubSeq(history'.historyEntries, 1, MAX_HISTORY_SIZE - 1)
                      = Tail(history.historyEntries)
                 /\ history'.historyEntries[MAX_HISTORY_SIZE].id
                      = history.nextId ]_vars

\* a full log that was cleared before and has dropped its oldest entry
\* since: the first entry logged after the clear took the id `mark`
C39_Witness ==
    /\ history.on
    /\ history.mark > 1
    /\ Len(history.historyEntries) = MAX_HISTORY_SIZE
    /\ history.historyEntries[1].id > history.mark
    /\ out.cmd = "cd"


====
